---------------------------- MODULE Spec2Model ----------------------------
(***************************************************************************)
(* A model of pinball_2_paddles.py: the pymunk space the program builds,   *)
(* the main loop (event batch, debug_draw, five substeps, flip) and the    *)
(* (ball, boundary) collision handler.                                     *)
(*                                                                         *)
(* The rigid-body integrator and the solver are pymunk's, not the          *)
(* program's.  What the program fixes is modelled exactly: which objects   *)
(* exist, their attributes, the order of the main loop, what each event    *)
(* does, what the handler removes.  What pymunk computes in floating point *)
(* is sampled: in a substep a falling body either keeps its position or    *)
(* takes one of two sample positions (the gap between the paddles, just    *)
(* clear of the out-of-bounds segment or overlapping it), and a paddle     *)
(* takes the angle its spring drives it to, the rest angle.  Velocities    *)
(* are kept as signs.                                                      *)
(* Angles are in units of pi/12.  Elasticities are in tenths.              *)
(* Space.step and Space.remove follow pymunk 5: the space is locked while  *)
(* stepping, a remove called from a callback is put in a set and carried   *)
(* out when the step is over.                                              *)
(***************************************************************************)
EXTENDS Integers, Sequences, FiniteSets, TLC

\* ------------------------------------------------------------ bounds
MaxBalls == 2
MaxBatch == 2

\* --------------------------------------------------- program constants
fps == 60
SubstepsPerFrame == 5
wall_radius == 5
paddle_mass == 10000
ball_mass == 1
ball_radius == 13
ball_elasticity == 4
wall_elasticity == 5
spawn_y == 750
rand_lo == 100
rand_hi == 500
default_collision_type == 0
default_elasticity == 0

collision_types == [ball |-> 0, boundary |-> 1, bumper |-> 2]

\* math.pi / n, in units of pi/12
PiOver(n) == 12 \div n

\* numbers that may be infinite: pymunk.inf, and the quotients pymunk returns
Fin(n, d) == [inf |-> FALSE, num |-> n, den |-> d]
Inf == [inf |-> TRUE, num |-> 0, den |-> 1]
\* a float literal m E e (5E10 does not fit a 32-bit integer)
Sci(m, e) == [mant |-> m, exp |-> e]

\* object identities: <<name, n>>
Id(name, n) == <<name, n>>
static_body == Id("static_body", 0)
out_of_bounds_segment == Id("out_of_bounds_segment", 0)
r_paddle_body == Id("r_paddle_body", 0)
r_paddle_shape == Id("r_paddle_shape", 0)
r_paddle_joint == Id("r_paddle_joint", 0)
r_pinjoint == Id("r_pinjoint", 0)
r_spring == Id("r_spring", 0)
l_paddle_body == Id("l_paddle_body", 0)
l_paddle_shape == Id("l_paddle_shape", 0)
l_paddle_joint == Id("l_paddle_joint", 0)
l_pinjoint == Id("l_pinjoint", 0)
l_spring == Id("l_spring", 0)
ball_body(k) == Id("ball_body", k)
ball_shape(k) == Id("ball_shape", k)

\* ------------------------------------------------------------ geometry
Abs(n) == IF n < 0 THEN -n ELSE n
Sign(n) == IF n < 0 THEN -1 ELSE IF n > 0 THEN 1 ELSE 0
Dot(u, v) == u[1] * v[1] + u[2] * v[2]
Cross(u, v) == u[1] * v[2] - u[2] * v[1]
Sub(u, v) == <<u[1] - v[1], u[2] - v[2]>>

RECURSIVE Gcd(_, _)
Gcd(a, b) == IF b = 0 THEN a ELSE Gcd(b, a % b)

\* 1000 * sin and 1000 * cos of an angle in units of pi/12 (the angles the
\* program uses: 0, +-pi/6, +-pi/4)
Sin1000(a) ==
    CASE a = 0 -> 0
      [] a = 2 -> 500
      [] a = -2 -> -500
      [] a = 3 -> 707
      [] a = -3 -> -707
Cos1000(a) ==
    CASE a = 0 -> 1000
      [] a = 2 -> 866
      [] a = -2 -> 866
      [] a = 3 -> 707
      [] a = -3 -> 707

\* floor division that rounds toward minus infinity is what \div does
Rotate(v, a) ==
    << (v[1] * Cos1000(a) - v[2] * Sin1000(a)) \div 1000,
       (v[1] * Sin1000(a) + v[2] * Cos1000(a)) \div 1000 >>

\* is point p nearer than dist to the segment a-b (all integers; the cross
\* product is squared only when it is small enough not to overflow)
PointNearSegment(p, a, b, dist) ==
    \E d \in {Sub(b, a)}, ap \in {Sub(p, a)} :
    \E t \in {Dot(ap, d)}, len2 \in {Dot(d, d)}, c \in {Abs(Cross(d, ap))} :
        IF t <= 0 THEN Dot(ap, ap) < dist * dist
        ELSE IF t >= len2 THEN Dot(Sub(p, b), Sub(p, b)) < dist * dist
        ELSE IF c >= dist * (Abs(d[1]) + Abs(d[2])) THEN FALSE
        ELSE c * c < dist * dist * len2

\* pymunk.moment_for_poly(mass, vertices): mass * sum1 / (6 * sum2)
RECURSIVE PolySum1(_, _)
PolySum1(vs, i) ==
    IF i > Len(vs) THEN 0
    ELSE LET v1 == vs[i]
             v2 == vs[(i % Len(vs)) + 1]
         IN  Cross(v1, v2) * (Dot(v1, v1) + Dot(v1, v2) + Dot(v2, v2))
               + PolySum1(vs, i + 1)
RECURSIVE PolySum2(_, _)
PolySum2(vs, i) ==
    IF i > Len(vs) THEN 0
    ELSE Cross(vs[i], vs[(i % Len(vs)) + 1]) + PolySum2(vs, i + 1)
moment_for_poly(mass, vs) ==
    LET s1 == Abs(PolySum1(vs, 1))
        s2 == 6 * Abs(PolySum2(vs, 1))
        g == Gcd(s1, s2)
    IN  Fin(mass * (s1 \div g), s2 \div g)

\* ------------------------------------------------------- object makers
Body(mass, moment, body_type, pos, angle) ==
    [mass |-> mass, moment |-> moment, body_type |-> body_type,
     position |-> pos, angle |-> angle,
     velocity |-> <<0, 0>>, angular_velocity |-> 0]
Segment(b, a1, b1, radius) ==
    [kind |-> "segment", body |-> b, a |-> a1, b |-> b1, radius |-> radius,
     vertices |-> <<>>, elasticity |-> default_elasticity,
     collision_type |-> default_collision_type]
Poly(vertices, b) ==
    [kind |-> "poly", body |-> b, a |-> <<0, 0>>, b |-> <<0, 0>>, radius |-> 0,
     vertices |-> vertices, elasticity |-> default_elasticity,
     collision_type |-> default_collision_type]
Circle(radius, b) ==
    [kind |-> "circle", body |-> b, a |-> <<0, 0>>, b |-> <<0, 0>>,
     radius |-> radius, vertices |-> <<>>,
     elasticity |-> default_elasticity,
     collision_type |-> default_collision_type]
PinJoint(a, b) ==
    [kind |-> "PinJoint", a |-> a, b |-> b, rest_angle |-> 0,
     stiffness |-> Sci(0, 0), damping |-> Sci(0, 0)]
DampedRotarySpring(a, b, rest_angle, stiffness, damping) ==
    [kind |-> "DampedRotarySpring", a |-> a, b |-> b,
     rest_angle |-> rest_angle, stiffness |-> stiffness, damping |-> damping]

\* ------------------------------------------------------------- setup
WallEnds ==
    << <<(<<50, 160>>), (<<190, 85>>)>>,
       <<(<<550, 160>>), (<<410, 85>>)>>,
       <<(<<50, 160>>), (<<50, 800>>)>>,
       <<(<<550, 800>>), (<<550, 160>>)>>,
       <<(<<50, 800>>), (<<550, 800>>)>> >>
wall(i) == Id("segment", i)
Walls == {wall(i) : i \in 1..Len(WallEnds)}

\* setup_boundaries: the five walls with elasticity 0.5, the out-of-bounds
\* segment with the "boundary" collision type
setup_boundaries_shapes ==
    [s \in Walls \cup {out_of_bounds_segment} |->
        IF s = out_of_bounds_segment
        THEN [Segment(static_body, <<0, -20>>, <<700, -20>>, 5)
                 EXCEPT !.collision_type = collision_types.boundary]
        ELSE [Segment(static_body, WallEnds[s[2]][1], WallEnds[s[2]][2],
                      wall_radius)
                 EXCEPT !.elasticity = wall_elasticity]]

\* the handler registered by space.add_collision_handler(ball, boundary)
handler_types == <<collision_types.ball, collision_types.boundary>>

stiffness == Sci(5, 10)
damping == Sci(2, 9)
r_rest_angle == -PiOver(6)
l_rest_angle == PiOver(6)
r_paddle_vertices == << <<0, 0>>, <<80, 0>>, <<80, 20>>, <<0, 20>> >>
l_paddle_vertices == << <<0, 0>>, <<-80, 0>>, <<-80, 20>>, <<0, 20>> >>

setup_paddles_bodies ==
    (r_paddle_body :>
        Body(Fin(paddle_mass, 1),
             moment_for_poly(paddle_mass, r_paddle_vertices),
             "DYNAMIC", <<200, 60>>, 0))
    @@ (r_paddle_joint :> Body(Inf, Inf, "STATIC", <<200, 60>>, 0))
    @@ (l_paddle_body :>
        Body(Fin(paddle_mass, 1),
             moment_for_poly(paddle_mass, l_paddle_vertices),
             "DYNAMIC", <<400, 60>>, 0))
    @@ (l_paddle_joint :> Body(Inf, Inf, "STATIC", <<400, 60>>, 0))
setup_paddles_shapes ==
    (r_paddle_shape :> Poly(r_paddle_vertices, r_paddle_body))
    @@ (l_paddle_shape :> Poly(l_paddle_vertices, l_paddle_body))
setup_paddles_constraints ==
    (r_pinjoint :> PinJoint(r_paddle_joint, r_paddle_body))
    @@ (r_spring :> DampedRotarySpring(r_paddle_body, r_paddle_joint,
                                       r_rest_angle, stiffness, damping))
    @@ (l_pinjoint :> PinJoint(l_paddle_joint, l_paddle_body))
    @@ (l_spring :> DampedRotarySpring(l_paddle_body, l_paddle_joint,
                                       l_rest_angle, stiffness, damping))

\* space.static_body: in every space, never in space.bodies
implicit_bodies == (static_body :> Body(Inf, Inf, "STATIC", <<0, 0>>, 0))

SetupBodies == DOMAIN setup_paddles_bodies
SetupShapes == DOMAIN setup_boundaries_shapes \cup DOMAIN setup_paddles_shapes
SetupConstraints == DOMAIN setup_paddles_constraints

\* ------------------------------------------------------------- events
Event(type, key) == [type |-> type, key |-> key]
Events ==
    {Event("QUIT", "NONE")}
    \cup {Event("KEYDOWN", k) : k \in {"K_ESCAPE", "K_SPACE", "K_LEFT", "K_RIGHT"}}
    \cup {Event("KEYUP", k) : k \in {"K_SPACE", "K_LEFT", "K_RIGHT"}}

NoEvent == Event("NOEVENT", "NONE")

\* an entry of the frame's log: what was done, and for a step its time step
Op(name, dt) == [op |-> name, dt |-> dt]

\* ------------------------------------------------------------- state
VARIABLES
    pc,            \* where the main loop is: "events", "draw", "step", "flip", "crashed"
    n_events,      \* events of the current batch handled so far
    sub,           \* substeps of the current frame done so far
    pygame_up,     \* FALSE once pygame.quit() has run
    bodies,        \* space.bodies
    shapes,        \* space.shapes
    constraints,   \* space.constraints
    body,          \* every Body created: its attributes
    shape,         \* every Shape created: its attributes
    constraint,    \* every Constraint created: its attributes
    n_balls,       \* balls created so far (the next ball is n_balls + 1)
    drawn,         \* the shapes the last debug_draw was handed
    frame_log,     \* what the current frame has done so far, in order
    begin_calls,   \* per shape: calls of remove_ball with it as arbiter.shapes[0]
    removals,      \* per object: times it was taken out of the space
    key_down,      \* per arrow key: its last event was a key down
    event,         \* the event the loop handled last in this batch
    step_arbiters  \* the handler's arbiters in the frame's last space.step

vars == <<pc, n_events, sub, pygame_up, bodies, shapes, constraints, body,
          shape, constraint, n_balls, drawn, frame_log, begin_calls, removals,
          key_down, event, step_arbiters>>

space_vars == <<bodies, shapes, constraints, body, shape, constraint>>

Init ==
    /\ pc = "events"
    /\ n_events = 0
    /\ sub = 0
    /\ pygame_up = TRUE
    /\ bodies = SetupBodies
    /\ shapes = SetupShapes
    /\ constraints = SetupConstraints
    /\ body = implicit_bodies @@ setup_paddles_bodies
    /\ shape = setup_boundaries_shapes @@ setup_paddles_shapes
    /\ constraint = setup_paddles_constraints
    /\ n_balls = 0
    /\ drawn = {}
    /\ frame_log = <<>>
    /\ begin_calls = [s \in {} |-> 0]
    /\ removals = [o \in {} |-> 0]
    /\ key_down = [k \in {"K_LEFT", "K_RIGHT"} |-> FALSE]
    /\ event = NoEvent
    /\ step_arbiters = {}


\* ----------------------------------------------------- the event loop
\* lines 170-173: QUIT, or Escape down, calls pygame.quit(); nothing leaves
\* the loop
Quits(e) ==
    \/ e.type = "QUIT"
    \/ e.type = "KEYDOWN" /\ e.key = "K_ESCAPE"

\* lines 175-176
Spawns(e) == e.type = "KEYDOWN" /\ e.key = "K_SPACE"

\* the arrow keys wired to the other paddle's spring
RestAngleCommandSwapped(e) ==
    (IF e.type = "KEYDOWN" /\ e.key = "K_LEFT" THEN {<<l_spring, PiOver(4)>>}
     ELSE IF e.type = "KEYUP" /\ e.key = "K_LEFT" THEN {<<l_spring, -PiOver(6)>>}
     ELSE {})
    \cup
    (IF e.type = "KEYDOWN" /\ e.key = "K_RIGHT" THEN {<<r_spring, -PiOver(4)>>}
     ELSE IF e.type = "KEYUP" /\ e.key = "K_RIGHT" THEN {<<r_spring, PiOver(6)>>}
     ELSE {})

\* lines 179-187: the rest angles after event e, as (spring, angle) pairs
RestAngleCommand(e) ==
    (IF e.type = "KEYDOWN" /\ e.key = "K_LEFT" THEN {<<r_spring, PiOver(4)>>}
     ELSE IF e.type = "KEYUP" /\ e.key = "K_LEFT" THEN {<<r_spring, -PiOver(6)>>}
     ELSE {})
    \cup
    (IF e.type = "KEYDOWN" /\ e.key = "K_RIGHT" THEN {<<l_spring, -PiOver(4)>>}
     ELSE IF e.type = "KEYUP" /\ e.key = "K_RIGHT" THEN {<<l_spring, PiOver(6)>>}
     ELSE {})

\* random.randrange(100, 500): the module's generator is never seeded by the
\* program, so any value of the range; the model draws the two ends
SpawnXs == {rand_lo, rand_hi - 1}

\* add_ball drawing x from randrange(0, 400)
add_ball_body_left(x) ==
    [Body(Fin(ball_mass, 1), Inf, "DYNAMIC", <<0, 0>>, 0)
        EXCEPT !.position = <<x - rand_lo, spawn_y>>]

\* add_ball(space), with x the value random.randrange returned
add_ball_body(x) ==
    [Body(Fin(ball_mass, 1), Inf, "DYNAMIC", <<0, 0>>, 0)
        EXCEPT !.position = <<x, spawn_y>>]
add_ball_shape(b) ==
    [Circle(ball_radius, b)
        EXCEPT !.elasticity = ball_elasticity,
               !.collision_type = collision_types.ball]

\* one iteration of "for event in pygame.event.get()"
HandleEvent(e, x) ==
    LET k == n_balls + 1
        cmds == RestAngleCommand(e)
    IN
    /\ pc = "events"
    /\ n_events < MaxBatch
    /\ Spawns(e) => n_balls < MaxBalls
    /\ n_events' = n_events + 1
    /\ pygame_up' = (pygame_up /\ ~Quits(e))
    /\ IF Spawns(e)
       THEN /\ body' = body @@ (ball_body(k) :> add_ball_body(x))
            /\ shape' = shape @@ (ball_shape(k) :> add_ball_shape(ball_body(k)))
            /\ bodies' = bodies \cup {ball_body(k)}
            /\ shapes' = shapes \cup {ball_shape(k)}
            /\ n_balls' = k
            /\ begin_calls' = begin_calls @@ (ball_shape(k) :> 0)
       ELSE UNCHANGED <<body, shape, bodies, shapes, n_balls, begin_calls>>
    /\ constraint' =
         [c \in DOMAIN constraint |->
            IF \E cmd \in cmds : cmd[1] = c
            THEN [constraint[c] EXCEPT
                    !.rest_angle = (CHOOSE cmd \in cmds : cmd[1] = c)[2]]
            ELSE constraint[c]]
    /\ key_down' =
         [key \in DOMAIN key_down |->
            IF e.key = key /\ e.type \in {"KEYDOWN", "KEYUP"}
            THEN e.type = "KEYDOWN"
            ELSE key_down[key]]
    /\ frame_log' =
         IF Spawns(e) \/ cmds # {}
         THEN Append(frame_log, Op("command", Fin(0, 1)))
         ELSE frame_log
    /\ event' = e
    /\ UNCHANGED <<pc, sub, constraints, drawn, removals, step_arbiters>>

\* the batch pygame.event.get() returned is exhausted
EndEvents ==
    /\ pc = "events"
    /\ pc' = "draw"
    /\ n_events' = 0
    /\ event' = NoEvent
    /\ UNCHANGED <<sub, pygame_up, space_vars, n_balls, drawn, frame_log,
                   begin_calls, removals, key_down, step_arbiters>>

\* debug_draw on a screen that was not filled: what was drawn stays
debug_draw_unfilled == drawn \cup shapes

\* lines 189-190: the screen is filled white, then space.debug_draw draws
\* the shapes that are in the space
debug_draw == shapes

Draw ==
    /\ pc = "draw"
    /\ pygame_up
    /\ drawn' = debug_draw
    /\ pc' = "step"
    /\ sub' = 0
    /\ frame_log' = Append(frame_log, Op("draw", Fin(0, 1)))
    /\ UNCHANGED <<n_events, pygame_up, space_vars, n_balls, begin_calls,
                   removals, key_down, event, step_arbiters>>

\* line 189 after pygame.quit(): screen.fill raises pygame.error (the display
\* surface is gone) and the program ends with the traceback
DrawAfterQuit ==
    /\ pc = "draw"
    /\ ~pygame_up
    /\ pc' = "crashed"
    /\ UNCHANGED <<n_events, sub, pygame_up, space_vars, n_balls, drawn,
                   frame_log, begin_calls, removals, key_down, event,
                   step_arbiters>>

\* lines 198-199: pygame.display.flip(), clock.tick(fps); the next frame
Flip ==
    /\ pc = "flip"
    /\ pc' = "events"
    /\ n_events' = 0
    /\ sub' = 0
    /\ frame_log' = <<>>
    /\ step_arbiters' = {}
    /\ UNCHANGED <<pygame_up, space_vars, n_balls, drawn, begin_calls,
                   removals, key_down, event>>

\* ------------------------------------------------- space.step(step / 5)
\* space.step(step): the whole frame time in every substep
step_dt_whole_frame == Fin(1, fps)

\* the time step handed to space.step: (1 / fps) / 5
step_dt == Fin(1, fps * SubstepsPerFrame)

\* the poses a substep may leave a body in.  A body held by a pin joint keeps
\* its position, any other dynamic body falls: it stays where it is, or comes
\* to the gap between the paddles, 18 above the out-of-bounds segment (radius
\* 13 + 5: touching, not overlapping) or 17 above it (overlapping).  A body
\* with an infinite moment never rotates, one on a rotary spring takes the
\* spring's rest angle.
FallSamples == {<<300, -2>>, <<300, -3>>}
Pinned(b) == \E c \in constraints : constraint[c].kind = "PinJoint" /\ constraint[c].b = b
SpringsOf(b) ==
    {c \in constraints : constraint[c].kind = "DampedRotarySpring" /\ constraint[c].a = b}
Positions(b) ==
    IF Pinned(b) THEN {body[b].position}
    ELSE {body[b].position} \cup {p \in FallSamples : p[2] < body[b].position[2]}
Angles(b) ==
    IF body[b].moment.inf \/ SpringsOf(b) = {} THEN {body[b].angle}
    ELSE {constraint[c].rest_angle : c \in SpringsOf(b)}
Dynamic == {b \in bodies : body[b].body_type = "DYNAMIC"}
Poses(b) == {<<p, a>> : p \in Positions(b), a \in Angles(b)}
RECURSIVE Choices(_)
Choices(S) ==
    IF S = {} THEN {<<>>}
    ELSE LET b == CHOOSE x \in S : TRUE
         IN  {(b :> q) @@ f : q \in Poses(b), f \in Choices(S \ {b})}
Integrations == Choices(Dynamic)
Integrate(f) ==
    [b \in DOMAIN body |->
        IF b \in DOMAIN f
        THEN [body[b] EXCEPT
                !.position = f[b][1],
                !.angle = f[b][2],
                !.velocity = IF Pinned(b) THEN <<0, 0>> ELSE <<0, -1>>,
                !.angular_velocity = Sign(f[b][2] - body[b].angle)]
        ELSE body[b]]

\* the points of a shape sh in its body's coordinates
LocalPoints(sh) ==
    CASE sh.kind = "circle" -> {<<0, 0>>}
      [] sh.kind = "segment" -> {sh.a, sh.b}
      [] sh.kind = "poly" -> {sh.vertices[i] : i \in DOMAIN sh.vertices}

\* the points of shape s in world coordinates, for the shapes S and bodies B
WorldPoints(s, S, B) ==
    UNION {{<<bd.position[1] + r[1], bd.position[2] + r[2]>> :
              r \in {Rotate(v, ang) : v \in LocalPoints(S[s]), ang \in {bd.angle}}} :
           bd \in {B[S[s].body]}}

\* does shape s overlap the segment t
Overlaps(s, t, S, B) ==
    \E ta \in {S[t].a}, tb \in {S[t].b}, dist \in {S[s].radius + S[t].radius} :
        \E p \in WorldPoints(s, S, B) : PointNearSegment(p, ta, tb, dist)

\* the arbiters of a step that the (ball, boundary) handler is looked up for:
\* one per pair of overlapping shapes of different bodies, not both static,
\* ordered as the handler's collision types
HandlerArbiters(B) ==
    UNION {{<<s, t>> :
              t \in {t \in shapes :
                       /\ shape[t].collision_type = handler_types[2]
                       /\ shape[s].body # shape[t].body
                       /\ ~(B[shape[s].body].body_type = "STATIC"
                            /\ B[shape[t].body].body_type = "STATIC")
                       /\ Overlaps(s, t, shape, B)}} :
           s \in {s \in shapes : shape[s].collision_type = handler_types[1]}}

\* remove_ball with only the body handed to space.remove
remove_ball_body_only(arbiter) == {shape[arbiter[1]].body}

\* remove_ball taking arbiter.shapes[1], the boundary's shape
remove_ball_other_shape(arbiter) == {arbiter[2], shape[arbiter[2]].body}

\* remove_ball(arbiter, space, data): what it hands to space.remove
remove_ball(arbiter) ==
    LET a_ball_shape == arbiter[1]
    IN  {a_ball_shape, shape[a_ball_shape].body}

\* Space.remove called while the space is locked: the objects go to a set
RemoveLater(arbs) == UNION {remove_ball(arb) : arb \in arbs}

Count(f, o) == IF o \in DOMAIN f THEN f[o] ELSE 0

\* one space.step: integrate, collide (begin callbacks), then the removals
Substep ==
    /\ pc = "step"
    /\ sub < SubstepsPerFrame
    /\ \E f \in Integrations :
       \E B \in {Integrate(f)} :
       \E arbs \in {HandlerArbiters(B)} :
       \E later \in {RemoveLater(arbs)} :
         /\ body' = B
         /\ step_arbiters' = arbs
         /\ shapes' = shapes \ later
         /\ bodies' = bodies \ later
         /\ constraints' = constraints \ later
         /\ begin_calls' =
              [s \in DOMAIN begin_calls \cup {arb[1] : arb \in arbs} |->
                 Count(begin_calls, s)
                   + Cardinality({arb \in arbs : arb[1] = s})]
         /\ removals' =
              [o \in DOMAIN removals \cup later |->
                 Count(removals, o) + IF o \in later THEN 1 ELSE 0]
    /\ sub' = sub + 1
    /\ pc' = IF sub + 1 = SubstepsPerFrame THEN "flip" ELSE "step"
    /\ frame_log' = Append(frame_log, Op("step", step_dt))
    /\ UNCHANGED <<n_events, pygame_up, shape, constraint, n_balls, drawn,
                   key_down, event>>

Next ==
    \/ \E e \in Events :
          \E x \in IF Spawns(e) THEN SpawnXs ELSE {rand_lo} : HandleEvent(e, x)
    \/ EndEvents
    \/ Draw
    \/ DrawAfterQuit
    \/ Substep
    \/ Flip

Spec == Init /\ [][Next]_vars

\* ------------------------------------------------------------- claims
Balls == 1..n_balls

\* ball k has come to overlap the out-of-bounds segment (a removed ball keeps
\* the position it had when it was removed)
Touched(k) == Overlaps(ball_shape(k), out_of_bounds_segment, shape, body)

\* a step of the main loop is a debug_draw call
DrawStep == pc = "draw" /\ pc' = "step"

C1_RemovedWhenSubstepEnds ==
    \A k \in Balls :
        Touched(k) => ball_shape(k) \notin shapes /\ ball_body(k) \notin bodies
C1_NotDrawnAfterwards ==
    DrawStep => \A k \in Balls : Touched(k) => ball_shape(k) \notin drawn'

\* C1: a ball that has come into contact with the out-of-bounds segment in a
\* substep has neither its shape nor its body in the space when that substep
\* is over, and no debug_draw call made after that substep is handed it.
C1_BallRemoval ==
    [] C1_RemovedWhenSubstepEnds /\ [][C1_NotDrawnAfterwards]_vars

\* a debug_draw call has been made after a ball touched the segment
C1_Witness ==
    /\ pc = "step"
    /\ sub = 0
    /\ \E k \in Balls : Touched(k)

\* C2: remove_ball is called at most once per colliding pair in a substep and
\* at most once per ball in a run; every ball that touched the out-of-bounds
\* segment was taken out of the space exactly once, shape and body, and every
\* ball that has not touched it is still in the space, also when several
\* balls touch the segment in the same substep.
C2_RemovedExactlyOnce ==
    /\ \A arb \in step_arbiters :
          Cardinality({a \in step_arbiters : a[1] = arb[1]}) = 1
    /\ \A s \in DOMAIN begin_calls : begin_calls[s] <= 1
    /\ \A o \in DOMAIN removals : removals[o] = 1
    /\ \A k \in Balls :
          IF Touched(k)
          THEN /\ begin_calls[ball_shape(k)] = 1
               /\ Count(removals, ball_shape(k)) = 1
               /\ Count(removals, ball_body(k)) = 1
               /\ ball_shape(k) \notin shapes
               /\ ball_body(k) \notin bodies
          ELSE /\ begin_calls[ball_shape(k)] = 0
               /\ Count(removals, ball_shape(k)) = 0
               /\ Count(removals, ball_body(k)) = 0
               /\ ball_shape(k) \in shapes
               /\ ball_body(k) \in bodies

\* two balls touched the segment in the same substep
C2_Witness ==
    /\ Cardinality(step_arbiters) >= 2
    /\ \A k \in Balls : Touched(k)

\* the entries of the frame's log with operation name
Entries(name) == {i \in DOMAIN frame_log : frame_log[i].op = name}

\* C3: in every frame the 5 substeps, each of (1 / fps) / 5, follow one
\* another with nothing between them: every command of the frame is applied
\* before the frame's first substep, and neither a command nor a draw call
\* comes between the first and the last substep.
C3_SubstepsConsecutive ==
    /\ \A i \in Entries("step") :
          /\ \A j \in DOMAIN frame_log : j > i => frame_log[j].op = "step"
          /\ ~frame_log[i].dt.inf
          /\ frame_log[i].dt.num * 5 * fps = frame_log[i].dt.den
    /\ Cardinality(Entries("step")) <= 5
    /\ pc = "flip" => Cardinality(Entries("step")) = 5
    /\ Cardinality(Entries("step")) = IF pc \in {"step", "flip"} THEN sub ELSE 0

\* a frame with a command in it has done all its substeps
C3_Witness ==
    /\ pc = "flip"
    /\ Entries("command") # {}
    /\ Cardinality(Entries("step")) = 5

\* C4 as stated: in every frame the commands come first, then the substeps,
\* and only then the draw call, which is handed the state after the substeps.
C4_DrawAfterSubsteps ==
    pc = "flip" =>
        /\ Entries("draw") # {}
        /\ \A i \in Entries("draw") :
              \A j \in Entries("step") \cup Entries("command") : j < i
        /\ drawn = shapes

\* C4, amended: in every frame the commands come first, then the one draw
\* call, then the substeps; the draw call is handed the shapes in the space
\* after the frame's commands and before its substeps.
C4_DrawBeforeSubsteps ==
    /\ \A i \in Entries("draw") :
          /\ \A j \in Entries("command") : j < i
          /\ \A j \in Entries("step") : i < j
    /\ Cardinality(Entries("draw")) = IF pc \in {"step", "flip"} THEN 1 ELSE 0
    /\ pc = "step" /\ sub = 0 => drawn = shapes
    /\ pc \in {"step", "flip"} =>
          /\ shapes \subseteq drawn
          /\ \A s \in drawn \ shapes : s \in {a[1] : a \in step_arbiters}
                                        \/ Count(removals, s) = 1

\* a frame that spawned a ball, drew it, and removed it in its substeps: what
\* was drawn is not the state after the substeps
C4_Witness ==
    /\ pc = "flip"
    /\ Entries("command") # {}
    /\ drawn # shapes

\* what an arrow key event commands: the spring and its rest angle, in units
\* of pi/12
C5_Commanded(e) ==
    CASE e = Event("KEYDOWN", "K_LEFT") -> <<r_spring, 3>>
      [] e = Event("KEYUP", "K_LEFT") -> <<r_spring, -2>>
      [] e = Event("KEYDOWN", "K_RIGHT") -> <<l_spring, -3>>
      [] e = Event("KEYUP", "K_RIGHT") -> <<l_spring, 2>>
C5_ArrowEvents ==
    {Event(t, k) : t \in {"KEYDOWN", "KEYUP"}, k \in {"K_LEFT", "K_RIGHT"}}
C5_CommandStep ==
    (pc = "events" /\ n_events' = n_events + 1 /\ event' \in C5_ArrowEvents) =>
        /\ constraint'[C5_Commanded(event')[1]].rest_angle = C5_Commanded(event')[2]
        /\ \A c \in DOMAIN constraint :
              /\ c \in DOMAIN constraint'
              /\ c # C5_Commanded(event')[1] => constraint'[c] = constraint[c]
              /\ constraint'[c] = [constraint[c] EXCEPT
                                     !.rest_angle = constraint'[c].rest_angle]
        /\ DOMAIN constraint' = DOMAIN constraint
        /\ body' = body
        /\ shape' = shape
        /\ bodies' = bodies
        /\ shapes' = shapes
        /\ constraints' = constraints
C5_RestAngles ==
    /\ constraint[r_spring].rest_angle = IF key_down["K_LEFT"] THEN 3 ELSE -2
    /\ constraint[l_spring].rest_angle = IF key_down["K_RIGHT"] THEN -3 ELSE 2

\* C5: an arrow key event sets the rest angle of its paddle's spring (LEFT
\* down: r_spring pi/4, LEFT up: r_spring -pi/6, RIGHT down: l_spring -pi/4,
\* RIGHT up: l_spring pi/6) and changes nothing else in the space; at any time
\* each spring's rest angle is the active one exactly when the last event of
\* its key was a key down, and the other configured one otherwise.
C5_ActuatorCommand == [] C5_RestAngles /\ [][C5_CommandStep]_vars

\* LEFT went down while a ball was in the space
C5_Witness ==
    /\ event = Event("KEYDOWN", "K_LEFT")
    /\ constraint[r_spring].rest_angle = 3
    /\ \E k \in Balls : ball_body(k) \in bodies

C6_SpawnStep ==
    n_balls' = n_balls + 1 =>
        LET b == ball_body(n_balls')
            sh == ball_shape(n_balls')
            x == body'[b].position[1]
            y == body'[b].position[2]
        IN  /\ b \notin DOMAIN body /\ sh \notin DOMAIN shape
            /\ bodies' = bodies \cup {b} /\ b \notin bodies
            /\ shapes' = shapes \cup {sh} /\ sh \notin shapes
            /\ constraints' = constraints /\ constraint' = constraint
            /\ \A o \in DOMAIN body : body'[o] = body[o]
            /\ \A o \in DOMAIN shape : shape'[o] = shape[o]
            /\ DOMAIN body' = DOMAIN body \cup {b}
            /\ DOMAIN shape' = DOMAIN shape \cup {sh}
            /\ body'[b].mass = [inf |-> FALSE, num |-> 1, den |-> 1]
            /\ body'[b].moment.inf
            /\ shape'[sh].kind = "circle"
            /\ shape'[sh].body = b
            /\ shape'[sh].radius = 13
            /\ shape'[sh].elasticity = 4
            /\ shape'[sh].collision_type = collision_types.ball
            /\ y = 750
            /\ 100 <= x /\ x < 500
            /\ 50 + 5 < x - 13 /\ x + 13 < 550 - 5 /\ y + 13 < 800 - 5
            /\ \A seg \in Walls \cup {out_of_bounds_segment} :
                  ~Overlaps(sh, seg, shape', body')

\* C6: add_ball adds exactly one new body and one new circle to the space and
\* changes no body, shape or constraint that was there; the ball has mass 1,
\* an infinite moment, radius 13, elasticity 0.4, the "ball" collision type,
\* y = 750 and 100 <= x < 500, lies strictly inside the walls and overlaps no
\* boundary segment.
C6_AddBall == [][C6_SpawnStep]_vars

\* a second ball was spawned while the first was in the space
C6_Witness ==
    /\ event = Event("KEYDOWN", "K_SPACE")
    /\ n_balls = 2
    /\ ball_body(1) \in bodies

\* the shapes in the space that the (ball, boundary) handler can be called for
C9_CanTrigger ==
    {s \in shapes :
        /\ shape[s].collision_type = handler_types[1]
        /\ \E t \in shapes :
              /\ shape[t].collision_type = handler_types[2]
              /\ shape[t].body # shape[s].body
              /\ ~(body[shape[s].body].body_type = "STATIC"
                   /\ body[shape[t].body].body_type = "STATIC")}

\* C9: every object made at setup is in the space, and the shapes that can
\* trigger the (ball, boundary) handler are exactly the circles add_ball made.
C9_OnlyBallsTrigger ==
    /\ SetupBodies \subseteq bodies
    /\ SetupShapes \subseteq shapes
    /\ SetupConstraints \subseteq constraints
    /\ C9_CanTrigger = {ball_shape(k) : k \in Balls} \cap shapes

\* C10: once pygame.quit() has run, no event is applied as a command, and no
\* draw call and no substep is made.
C10_StoppedAfterQuit ==
    [][~pygame_up =>
          /\ n_balls' = n_balls
          /\ constraint' = constraint
          /\ body' = body
          /\ bodies' = bodies
          /\ shapes' = shapes
          /\ drawn' = drawn
          /\ frame_log' = frame_log \/ frame_log' = <<>>]_vars
=============================================================================
